---- MODULE Spec2Model ----
(***************************************************************************)
(* Model of NanEchoAutomationIntegrator                                    *)
(* (src/echoself/NanEcho/automation_integration.py).                       *)
(*                                                                         *)
(* Scores and thresholds are Python floats in [0.0, 1.0]; here they are    *)
(* fixed-point integers counting thousandths (0.85 is 850), compared in    *)
(* exact arithmetic.  Dicts are functions from string keys; a dict that    *)
(* lacks a key is a function whose DOMAIN lacks it, read through Get as    *)
(* the code reads it through dict.get.  datetime.now().isoformat() is an   *)
(* integer clock reading; two successive readings may be equal.            *)
(***************************************************************************)
EXTENDS Integers, Sequences, FiniteSets, TLC

VARIABLES
  config,               \* self.config
  results_cache,        \* self.results_cache
  improvement_history,  \* self.improvement_history
  results,              \* the result the caller was last handed (<<>>: none yet)
  clock,                \* the latest reading of datetime.now()
  output_file,          \* the record stored at output_path (<<>>: none)
  saves,                \* number of save_analysis_results calls so far
  last_call             \* the method called last; "save_raised": the save raised

vars == <<config, results_cache, improvement_history, results, clock,
          output_file, saves, last_call>>

(* ---- bounds ---- *)
MaxClock == 3
MaxHistory == 2

(* ---- dict helpers ---- *)
EmptyDict == [k \in {} |-> 0]

Get(d, k, default) == IF k \in DOMAIN d THEN d[k] ELSE default

(* ---- configuration: _load_config and _deep_update ---- *)
default_config ==
  [quality_gates |->
     [min_fidelity_production |-> 850,
      min_fidelity_development |-> 700,
      min_identity_recognition |-> 800,
      min_persona_consistency |-> 750,
      max_performance_decline |-> 100],
   training_triggers |->
     [auto_retrain_on_failure |-> TRUE,
      relentless_training_interval_hours |-> 4,
      max_consecutive_failures |-> 3,
      performance_improvement_threshold |-> 50],
   feedback_integration |->
     [enable_hyperparameter_adjustment |-> TRUE,
      enable_dataset_enhancement |-> TRUE,
      enable_curriculum_adaptation |-> TRUE,
      max_training_iterations_increase |-> 2000],
   deployment |->
     [enable_automated_deployment |-> FALSE,
      require_manual_approval |-> TRUE,
      staging_environment_tests |-> TRUE]]

\* The inner level of _deep_update: every value is a scalar, so each key of
\* update_dict takes the else branch (base_dict[key] = value).
DeepUpdateLeaf(base_dict, update_dict) ==
  [k \in DOMAIN base_dict \cup DOMAIN update_dict |->
     IF k \in DOMAIN update_dict THEN update_dict[k] ELSE base_dict[k]]

\* _deep_update on dicts of dicts: a group present in both is merged
\* recursively, a group only in update_dict is stored as it is.
DeepUpdate(base_dict, update_dict) ==
  [g \in DOMAIN base_dict \cup DOMAIN update_dict |->
     IF g \in DOMAIN update_dict
     THEN IF g \in DOMAIN base_dict
          THEN DeepUpdateLeaf(base_dict[g], update_dict[g])
          ELSE update_dict[g]
     ELSE base_dict[g]]

\* Contents of the user's configuration file; EmptyDict also stands for
\* "no config_path given / file does not exist".
UserConfigs ==
  { EmptyDict,
    [quality_gates |-> [min_fidelity_production |-> 600]],
    [quality_gates |-> [min_fidelity_development |-> 500]],
    [quality_gates |-> [min_fidelity_development |-> 900,
                        min_fidelity_production |-> 900]],
    [quality_gates |-> [min_identity_recognition |-> 500,
                        min_persona_consistency |-> 500]],
    [training_triggers |-> [auto_retrain_on_failure |-> FALSE]],
    [training_triggers |-> [relentless_training_interval_hours |-> 6,
                            auto_retrain_on_failure |-> FALSE]],
    [training_triggers |-> [performance_improvement_threshold |-> 100],
     quality_gates |-> [max_performance_decline |-> 50]],
    [quality_gates |-> [min_fidelity_production |-> 0,
                        min_fidelity_development |-> 0,
                        min_identity_recognition |-> 0,
                        min_persona_consistency |-> 0]],
    [nanocog_evaluation |-> [enabled |-> TRUE]] }

_load_config(user_config) == DeepUpdate(default_config, user_config)

Configs == { _load_config(u) : u \in UserConfigs }

(* ---- _evaluate_quality_gates ---- *)
\* Minimum overall fidelity for the mode.  development * 0.8 is exact here
\* because thresholds are whole hundredths (multiples of 10 thousandths).
MinFidelityLenient(gates, training_mode) ==
  IF training_mode = "ci" THEN (gates.min_fidelity_development * 8) \div 10
  ELSE gates.min_fidelity_development

MinFidelity(gates, training_mode) ==
  IF training_mode = "relentless" THEN gates.min_fidelity_production
  ELSE IF training_mode = "ci" THEN (gates.min_fidelity_development * 8) \div 10
  ELSE gates.min_fidelity_development

GateStrict(score, threshold) ==
  [passed |-> score > threshold, score |-> score, threshold |-> threshold]

Gate(score, threshold) ==
  [passed |-> score >= threshold, score |-> score, threshold |-> threshold]

DeploymentReadyAnyPass(gates, all_passed, overall_fidelity) == all_passed

DeploymentReady(gates, all_passed, overall_fidelity) ==
  all_passed /\ overall_fidelity >= gates.min_fidelity_production

ScoreOptimistic(fidelity_metrics, name) == Get(fidelity_metrics, name, 1000)

\* fidelity_metrics.get(name, 0.0)
Score(fidelity_metrics, name) == Get(fidelity_metrics, name, 0)

_evaluate_quality_gates(cfg, fidelity_metrics, training_mode) ==
  LET gates == cfg.quality_gates
      min_fidelity == MinFidelity(gates, training_mode)
      overall_fidelity == Score(fidelity_metrics, "overall_fidelity")
      identity_recognition == Score(fidelity_metrics, "identity_recognition")
      persona_consistency == Score(fidelity_metrics, "persona_consistency")
      gates_status ==
        [overall_fidelity |-> Gate(overall_fidelity, min_fidelity),
         identity_recognition |->
           Gate(identity_recognition, gates.min_identity_recognition),
         persona_consistency |->
           Gate(persona_consistency, gates.min_persona_consistency)]
      all_passed == \A g \in DOMAIN gates_status : gates_status[g].passed
  IN [status |-> IF all_passed THEN "passed" ELSE "failed",
      overall_passed |-> all_passed,
      individual_gates |-> gates_status,
      min_required_fidelity |-> min_fidelity,
      deployment_ready |-> DeploymentReady(gates, all_passed, overall_fidelity)]

(* ---- _analyze_performance_trends ---- *)
NoHistoryShort(history) == Len(history) <= 1

\* "not self.improvement_history"
NoHistory(history) == history = <<>>

TrendOfInclusive(cfg, change) ==
  IF change >= cfg.training_triggers.performance_improvement_threshold
  THEN "improving"
  ELSE IF change <= -cfg.quality_gates.max_performance_decline
       THEN "declining"
       ELSE "stable"

TrendOf(cfg, change) ==
  IF change > cfg.training_triggers.performance_improvement_threshold
  THEN "improving"
  ELSE IF change < -cfg.quality_gates.max_performance_decline
       THEN "declining"
       ELSE "stable"

_analyze_performance_trends(cfg, history, current_metrics) ==
  IF NoHistory(history)
  THEN [trend |-> "initial", change |-> 0, status |-> "baseline"]
  ELSE
    LET previous_metrics == Get(history[Len(history)], "fidelity_metrics", EmptyDict)
        previous_fidelity == Get(previous_metrics, "overall_fidelity", 0)
        current_fidelity == Get(current_metrics, "overall_fidelity", 0)
        change == current_fidelity - previous_fidelity
        trend == TrendOf(cfg, change)
        status == IF trend = "improving" THEN "good"
                  ELSE IF trend = "declining" THEN "concerning"
                  ELSE "neutral"
    IN [trend |-> trend, change |-> change, status |-> status,
        previous_fidelity |-> previous_fidelity,
        current_fidelity |-> current_fidelity]

(* ---- _generate_improvement_recommendations ---- *)
\* individual_gates is iterated in insertion order.
GateOrder == <<"overall_fidelity", "identity_recognition", "persona_consistency">>

ImmediateFor(gate) ==
  IF gate = "identity_recognition"
  THEN "Increase Echo Self identity training examples"
  ELSE IF gate = "persona_consistency"
  THEN "Balance training across all persona dimensions"
  ELSE "Review overall training approach"

AdjustmentForCopied(gate) ==
  IF gate = "identity_recognition" THEN "increase_identity_weight"
  ELSE IF gate = "persona_consistency" THEN "increase_identity_weight"
  ELSE "extend_training_duration"

AdjustmentFor(gate) ==
  IF gate = "identity_recognition" THEN "increase_identity_weight"
  ELSE IF gate = "persona_consistency" THEN "balance_persona_weights"
  ELSE "extend_training_duration"

FidelityBandInclusive(overall_fidelity) ==
  IF overall_fidelity <= 600
  THEN <<"Increase training iterations significantly",
         "Enhance data quality and diversity",
         "Review model architecture parameters">>
  ELSE IF overall_fidelity <= 800
  THEN <<"Fine-tune with targeted examples",
         "Adjust attention mechanism parameters">>
  ELSE <<>>

\* The if / elif on the performance level.
FidelityBand(overall_fidelity) ==
  IF overall_fidelity < 600
  THEN <<"Increase training iterations significantly",
         "Enhance data quality and diversity",
         "Review model architecture parameters">>
  ELSE IF overall_fidelity < 800
  THEN <<"Fine-tune with targeted examples",
         "Adjust attention mechanism parameters">>
  ELSE <<>>

_generate_improvement_recommendations(fidelity_metrics, training_mode, quality_status) ==
  LET overall_fidelity == Get(fidelity_metrics, "overall_fidelity", 0)
      IsFailed(gate) == ~quality_status.individual_gates[gate].passed
      failed_gates == SelectSeq(GateOrder, IsFailed)
      band == FidelityBand(overall_fidelity)
      by_mode == IF training_mode = "relentless"
                 THEN IF overall_fidelity < 850
                      THEN <<"Increase relentless training frequency">>
                      ELSE <<>>
                 ELSE IF overall_fidelity > 750
                      THEN <<"Consider enabling relentless training mode">>
                      ELSE <<>>
  IN [immediate |-> [i \in 1..Len(failed_gates) |-> ImmediateFor(failed_gates[i])],
      next_training_cycle |-> band \o by_mode,
      long_term |-> IF training_mode = "relentless"
                    THEN <<"Monitor continuous improvement trends">>
                    ELSE <<>>,
      hyperparameter_adjustments |->
        [i \in 1..Len(failed_gates) |-> AdjustmentFor(failed_gates[i])]]

(* ---- _determine_next_actions ---- *)
NoActions ==
  [continue_training |-> FALSE, deploy_model |-> FALSE,
   retrain_required |-> FALSE, enable_relentless_mode |-> FALSE,
   schedule_next_cycle |-> FALSE, manual_review_needed |-> FALSE]

BelowRetrainFloorInclusive(score) == score <= 500

BelowRetrainFloor(score) == score < 500

\* The if / elif / else table.
BranchActions(quality_status, training_mode) ==
        IF quality_status.deployment_ready
        THEN IF training_mode # "relentless"
             THEN [NoActions EXCEPT !.deploy_model = TRUE,
                                    !.enable_relentless_mode = TRUE,
                                    !.schedule_next_cycle = TRUE]
             ELSE [NoActions EXCEPT !.deploy_model = TRUE]
        ELSE IF quality_status.status = "passed"
        THEN [NoActions EXCEPT !.continue_training = TRUE,
                               !.schedule_next_cycle = TRUE]
        ELSE IF BelowRetrainFloor(quality_status.individual_gates.overall_fidelity.score)
        THEN [NoActions EXCEPT !.retrain_required = TRUE,
                               !.manual_review_needed = TRUE]
        ELSE [NoActions EXCEPT !.continue_training = TRUE,
                               !.schedule_next_cycle = TRUE]

NextActionsTableOnly(quality_status, recommendations, training_mode) ==
  BranchActions(quality_status, training_mode)

_determine_next_actions(quality_status, recommendations, training_mode) ==
  LET branch == BranchActions(quality_status, training_mode)
  IN IF training_mode = "relentless" /\ ~quality_status.deployment_ready
     THEN [branch EXCEPT !.schedule_next_cycle = TRUE]
     ELSE branch

(* ---- _generate_automation_triggers ---- *)
RelentlessTriggersKeepRetry(triggers, conf, training_mode) ==
  IF training_mode = "relentless" /\ ~triggers.trigger_next_training
  THEN [triggers EXCEPT !.trigger_next_training = TRUE,
                        !.training_delay_hours =
                           conf.relentless_training_interval_hours]
  ELSE triggers

RelentlessTriggers(triggers, conf, training_mode) ==
  IF training_mode = "relentless"
  THEN [triggers EXCEPT !.trigger_next_training = TRUE,
                        !.training_delay_hours =
                           conf.relentless_training_interval_hours]
  ELSE triggers

NeedsBoostInclusive(overall_fidelity) == overall_fidelity <= 700

NeedsBoost(overall_fidelity) == overall_fidelity < 700

_generate_automation_triggers(cfg, quality_status, training_mode) ==
  LET triggers0 ==
        [trigger_next_training |-> FALSE,
         training_delay_hours |-> 0,
         hyperparameter_adjustments |-> EmptyDict,
         dataset_enhancements |-> <<>>,
         notification_required |-> FALSE]
      conf == cfg.training_triggers
      triggers1 ==
        IF ~quality_status.overall_passed /\ conf.auto_retrain_on_failure
        THEN [triggers0 EXCEPT !.trigger_next_training = TRUE,
                               !.training_delay_hours = 1,
                               !.notification_required = TRUE]
        ELSE triggers0
      triggers2 == RelentlessTriggers(triggers1, conf, training_mode)
      overall_fidelity == quality_status.individual_gates.overall_fidelity.score
  IN IF NeedsBoost(overall_fidelity)
     THEN [triggers2 EXCEPT !.hyperparameter_adjustments =
                               [learning_rate |-> "increase",
                                max_iters |-> "increase"]]
     ELSE triggers2

(* ---- _generate_fallback_evaluation_data ---- *)
base_performance == 650

\* max(0.0, min(1.0, score))
Clamp(score) == IF score < 0 THEN 0 ELSE IF score > 1000 THEN 1000 ELSE score

Sum6(scores) ==
  scores[1] + scores[2] + scores[3] + scores[4] + scores[5] + scores[6]

FallbackOverallOffByOne(scores) == Sum6(scores) \div (Len(scores) - 1)

\* sum(scores) / len(scores)
FallbackOverall(scores) == Sum6(scores) \div Len(scores)

\* offsets: the six random.uniform draws, in the order the code makes them.
_generate_fallback_evaluation_data(offsets) ==
  LET scores == [i \in 1..6 |-> Clamp(base_performance + offsets[i])]
  IN [fidelity_metrics |->
        [identity_recognition |-> scores[1],
         persona_consistency |-> scores[2],
         adaptive_attention_understanding |-> scores[3],
         recursive_reasoning_capability |-> scores[4],
         hypergraph_comprehension |-> scores[5],
         cognitive_synergy_demonstration |-> scores[6],
         overall_fidelity |-> FallbackOverall(scores)],
      status |-> "fallback_synthetic_data",
      note |-> "Generated when real evaluation unavailable"]

(* ---- analyze_training_results ---- *)
\* evaluation_data is the report loaded from evaluation_report_path, or what
\* _run_real_evaluation returned when the file does not exist.  t1 is the
\* clock reading stored as the result's timestamp, t2 the later reading used
\* as the results_cache key.
AnalysisOfEscalating(cfg, history, evaluation_data, training_mode, t1) ==
  LET fidelity_metrics == Get(evaluation_data, "fidelity_metrics", EmptyDict)
      overall_fidelity == Get(fidelity_metrics, "overall_fidelity", 0)
      quality_status == _evaluate_quality_gates(cfg, fidelity_metrics, training_mode)
      performance_analysis == _analyze_performance_trends(cfg, history, fidelity_metrics)
      recommendations ==
        _generate_improvement_recommendations(fidelity_metrics, training_mode,
                                              quality_status)
      next_actions ==
        _determine_next_actions(quality_status, recommendations, training_mode)
  IN [timestamp |-> t1,
      training_mode |-> training_mode,
      overall_fidelity |-> overall_fidelity,
      quality_gate_status |-> quality_status,
      performance_analysis |-> performance_analysis,
      recommendations |-> recommendations,
      next_actions |->
        IF performance_analysis.trend = "declining"
        THEN [next_actions EXCEPT !.manual_review_needed = TRUE]
        ELSE next_actions,
      automation_triggers |->
        _generate_automation_triggers(cfg, quality_status, training_mode)]

AnalysisOf(cfg, history, evaluation_data, training_mode, t1) ==
  LET fidelity_metrics == Get(evaluation_data, "fidelity_metrics", EmptyDict)
      overall_fidelity == Get(fidelity_metrics, "overall_fidelity", 0)
      quality_status == _evaluate_quality_gates(cfg, fidelity_metrics, training_mode)
      performance_analysis == _analyze_performance_trends(cfg, history, fidelity_metrics)
      recommendations ==
        _generate_improvement_recommendations(fidelity_metrics, training_mode,
                                              quality_status)
      next_actions ==
        _determine_next_actions(quality_status, recommendations, training_mode)
  IN [timestamp |-> t1,
      training_mode |-> training_mode,
      overall_fidelity |-> overall_fidelity,
      quality_gate_status |-> quality_status,
      performance_analysis |-> performance_analysis,
      recommendations |-> recommendations,
      next_actions |-> next_actions,
      automation_triggers |->
        _generate_automation_triggers(cfg, quality_status, training_mode)]

CachePutOnly(cache, key, value) == [k \in {key} |-> value]

\* self.results_cache[key] = value
CachePut(cache, key, value) ==
  [k \in DOMAIN cache \cup {key} |-> IF k = key THEN value ELSE cache[k]]

analyze_and_record(evaluation_data, training_mode, t1, t2) ==
  LET analysis_results ==
        AnalysisOf(config, improvement_history, evaluation_data, training_mode, t1)
  IN /\ results_cache' = CachePut(results_cache, t2, analysis_results)
     /\ results' = <<analysis_results>>
     /\ clock' = t2
     /\ last_call' = "analyze"
     /\ improvement_history' =
          Append(improvement_history,
                 [timestamp |-> t1,
                  fidelity_metrics |->
                    [overall_fidelity |-> analysis_results.overall_fidelity],
                  quality_status |-> analysis_results.quality_gate_status.status,
                  training_mode |-> training_mode])
     /\ UNCHANGED <<config, output_file, saves>>

analyze_training_results(evaluation_data, training_mode, t1, t2) ==
  LET analysis_results ==
        AnalysisOf(config, improvement_history, evaluation_data, training_mode, t1)
  IN /\ results_cache' = CachePut(results_cache, t2, analysis_results)
     /\ results' = <<analysis_results>>
     /\ clock' = t2
     /\ last_call' = "analyze"
     /\ UNCHANGED <<config, improvement_history, output_file, saves>>

(* ---- save_analysis_results ---- *)
HistoryEntry(r) ==
  [timestamp |-> r.timestamp,
   fidelity_metrics |-> [overall_fidelity |-> r.overall_fidelity],
   quality_status |-> r.quality_gate_status.status,
   training_mode |-> r.training_mode]

\* The append comes first; then the file is opened and written.  A write
\* that raises leaves the file untouched (open failed) or without a valid
\* record (dump failed after the file was truncated).
save_at_front(r, write_ok, truncated) ==
  /\ improvement_history' = <<HistoryEntry(r)>> \o improvement_history
  /\ output_file' = IF write_ok THEN <<r>>
                    ELSE IF truncated THEN <<>> ELSE output_file
  /\ saves' = saves + 1
  /\ last_call' = IF write_ok THEN "save" ELSE "save_raised"
  /\ UNCHANGED <<config, results_cache, results, clock>>

save_write_first(r, write_ok, truncated) ==
  /\ improvement_history' = IF write_ok
                            THEN Append(improvement_history, HistoryEntry(r))
                            ELSE improvement_history
  /\ output_file' = IF write_ok THEN <<r>>
                    ELSE IF truncated THEN <<>> ELSE output_file
  /\ saves' = saves + 1
  /\ last_call' = IF write_ok THEN "save" ELSE "save_raised"
  /\ UNCHANGED <<config, results_cache, results, clock>>

save_analysis_results(r, write_ok, truncated) ==
  /\ improvement_history' = Append(improvement_history, HistoryEntry(r))
  /\ output_file' = IF write_ok THEN <<r>>
                    ELSE IF truncated THEN <<>> ELSE output_file
  /\ saves' = saves + 1
  /\ last_call' = IF write_ok THEN "save" ELSE "save_raised"
  /\ UNCHANGED <<config, results_cache, results, clock>>

(* ---- inputs ---- *)
Missing == -1

MetricsOf(o, i, p) ==
  [k \in {kk \in {"overall_fidelity", "identity_recognition", "persona_consistency"} :
            \/ kk = "overall_fidelity" /\ o # Missing
            \/ kk = "identity_recognition" /\ i # Missing
            \/ kk = "persona_consistency" /\ p # Missing} |->
     IF k = "overall_fidelity" THEN o
     ELSE IF k = "identity_recognition" THEN i ELSE p]

AllModes == {"standard", "relentless", "ci", "nightly"}

OverallScores == {Missing, 0, 490, 500, 550, 560, 600, 690, 700, 750, 760,
                  800, 840, 850, 900, 1000}
IdentityScores == {Missing, 500, 790, 800, 900}
PersonaScores == {Missing, 500, 740, 750, 900}

AllEvalData ==
  {EmptyDict} \cup
  { [fidelity_metrics |-> MetricsOf(o, i, p)] :
      o \in OverallScores, i \in IdentityScores, p \in PersonaScores }

\* Reports that lack any subset of the three consulted keys, or the whole
\* fidelity_metrics group.
MalformedEvalData ==
  {EmptyDict} \cup
  { [fidelity_metrics |-> MetricsOf(o, i, p)] :
      o \in {Missing, 400, 900}, i \in {Missing, 400, 900}, p \in {Missing, 400, 900} }

\* Draws of the six uniform offsets: both ends of each range and a value
\* near the upper end, kept where the mean of the six scores is a whole
\* number of thousandths, so that overall_fidelity is exact.
FallbackOffsets ==
  { o \in {-150, 150, 200} \X {-100, 100, 150} \X {-200, 100} \X {-250, 50}
          \X {-300, 50} \X {-350, 98, 100} :
      Sum6([i \in 1..6 |-> Clamp(base_performance + o[i])]) % 6 = 0 }

FallbackEvalData == { _generate_fallback_evaluation_data(o) : o \in FallbackOffsets }

SessionModes == {"standard", "relentless"}

SessionEvalData ==
  { [fidelity_metrics |-> MetricsOf(o, 800, 750)] : o \in {500, 600, 650} }

SessionConfigs ==
  { _load_config(EmptyDict),
    _load_config([training_triggers |-> [performance_improvement_threshold |-> 100],
                  quality_gates |-> [max_performance_decline |-> 50]]) }

(* ---- specifications ---- *)
InitWith(cfgs) ==
  /\ config \in cfgs
  /\ results_cache = EmptyDict
  /\ improvement_history = <<>>
  /\ results = <<>>
  /\ clock = 0
  /\ output_file = <<>>
  /\ saves = 0
  /\ last_call = "init"

\* Loading the report and printing take time: an analysis reads the clock
\* strictly after the previous one did, and its two readings are at most one
\* tick apart.
AnalyzeOver(EvalData, Modes) ==
  \E evaluation_data \in EvalData, training_mode \in Modes :
    \E t2 \in (clock + 1)..(clock + 2) :
      /\ t2 <= MaxClock
      /\ analyze_training_results(evaluation_data, training_mode, clock + 1, t2)

\* The caller saves the result it was last handed; it may save it again.
SaveLatest ==
  /\ results # <<>>
  /\ Len(improvement_history) < MaxHistory
  /\ \E write_ok \in BOOLEAN, truncated \in BOOLEAN :
       save_analysis_results(results[1], write_ok, truncated)

\* A session: any interleaving of analyses and saves on one integrator.
Init == InitWith(SessionConfigs)

Analyze == AnalyzeOver(SessionEvalData, SessionModes)

Save == SaveLatest

Next == Analyze \/ Save

Spec == Init /\ [][Next]_vars

\* A single run: a fresh integrator analyses one report and saves the result.
InitOnce == InitWith(Configs)

AnalyzeOnce == results = <<>> /\ AnalyzeOver(AllEvalData, AllModes)

SaveOnce == improvement_history = <<>> /\ SaveLatest

NextOnce == AnalyzeOnce \/ SaveOnce

SpecOnce == InitOnce /\ [][NextOnce]_vars

\* A single run on a report with missing keys.
AnalyzeMalformed == results = <<>> /\ AnalyzeOver(MalformedEvalData, AllModes)

NextMalformed == AnalyzeMalformed \/ SaveOnce

SpecMalformed == InitOnce /\ [][NextMalformed]_vars

\* A single run whose report file is absent and whose evaluation falls back
\* to synthetic data, under the default configuration.
InitFallback == InitWith({_load_config(EmptyDict)})

AnalyzeFallback == results = <<>> /\ AnalyzeOver(FallbackEvalData, AllModes)

NextFallback == AnalyzeFallback \/ SaveOnce

SpecFallback == InitFallback /\ [][NextFallback]_vars

(* ======================= properties ======================= *)
Range(f) == { f[x] : x \in DOMAIN f }

\* Every analysis result the state holds: the caller's, the cached ones and
\* the one in the output file.
Produced == Range(results) \cup Range(results_cache) \cup Range(output_file)

Production == config.quality_gates.min_fidelity_production
Development == config.quality_gates.min_fidelity_development

\* C1: in every gate result deployment_ready = (overall_passed and
\* overall_fidelity >= min_fidelity_production); so deployment_ready implies
\* overall_passed, and a ci or standard run is deployment_ready only if its
\* overall_fidelity reaches the production threshold.
C1_DeploymentReady ==
  \A r \in Produced :
    LET q == r.quality_gate_status IN
    /\ q.deployment_ready = (q.overall_passed /\ r.overall_fidelity >= Production)
    /\ q.deployment_ready => q.overall_passed
    /\ (r.training_mode \in {"ci", "standard"} /\ q.deployment_ready)
         => r.overall_fidelity >= Production

\* A ci run that passed on the ci threshold but is below the production bar.
C1_Witness ==
  \E r \in Produced :
    /\ r.training_mode = "ci"
    /\ r.quality_gate_status.overall_passed
    /\ r.overall_fidelity < Production
    /\ ~r.quality_gate_status.deployment_ready

\* C2: the minimum overall fidelity is the production threshold in mode
\* relentless, 0.8 * development in mode ci and the development threshold in
\* every other mode; each gate has passed = (score >= threshold); overall_passed
\* iff all three gates passed, and status is "passed" iff overall_passed.
C2_GateSelection ==
  \A r \in Produced :
    LET q == r.quality_gate_status
        g == q.individual_gates
    IN
    /\ r.training_mode = "relentless" => g.overall_fidelity.threshold = Production
    /\ r.training_mode = "ci" => 10 * g.overall_fidelity.threshold = 8 * Development
    /\ r.training_mode \notin {"relentless", "ci"}
         => g.overall_fidelity.threshold = Development
    /\ g.identity_recognition.threshold = config.quality_gates.min_identity_recognition
    /\ g.persona_consistency.threshold = config.quality_gates.min_persona_consistency
    /\ g.overall_fidelity.score = r.overall_fidelity
    /\ DOMAIN g = {"overall_fidelity", "identity_recognition", "persona_consistency"}
    /\ \A n \in DOMAIN g : g[n].passed <=> (g[n].score >= g[n].threshold)
    /\ q.overall_passed <=> (\A n \in DOMAIN g : g[n].passed)
    /\ (q.status = "passed") <=> q.overall_passed
    /\ q.status \in {"passed", "failed"}

\* An unknown mode judged on the development threshold, passing with the
\* overall score exactly on it.
C2_Witness ==
  \E r \in Produced :
    /\ r.training_mode = "nightly"
    /\ r.overall_fidelity = Development
    /\ r.quality_gate_status.individual_gates.overall_fidelity.passed
    /\ r.quality_gate_status.status = "passed"

\* The trend analysis of the result handed out by the step.
NewTrend == results'[1].performance_analysis

LastSavedFidelity == improvement_history[Len(improvement_history)].fidelity_metrics.overall_fidelity

IsPrefix(a, b) == Len(a) <= Len(b) /\ SubSeq(b, 1, Len(a)) = a

\* C3: analyze_training_results leaves improvement_history as it is and only
\* save_analysis_results changes it; an analysis that follows another one
\* with no save in between, on the same overall_fidelity, reports the same
\* trend, change and previous fidelity as that one did.
C3_AnalyzeKeepsHistory ==
  [][ /\ Analyze => improvement_history' = improvement_history
      /\ improvement_history' # improvement_history
           => last_call' \in {"save", "save_raised"}
      /\ (Analyze /\ last_call = "analyze"
            /\ results'[1].overall_fidelity = results[1].overall_fidelity)
           => NewTrend = results[1].performance_analysis ]_vars

\* Two analyses made after the only save, none saved since, with the same
\* metrics: both in the cache with a trend computed against the saved entry.
C3_Witness ==
  /\ last_call = "analyze"
  /\ Len(improvement_history) = 1
  /\ \E k1, k2 \in DOMAIN results_cache :
       /\ k1 # k2
       /\ results_cache[k1].performance_analysis.trend # "initial"
       /\ results_cache[k2].performance_analysis = results_cache[k1].performance_analysis

\* C4: an analysis reports trend "initial" (change 0, status "baseline") iff
\* the history is empty when it runs, whatever the metrics; so every analysis
\* before the first save reports "initial" and none after it does.
C4_InitialIffEmpty ==
  [][ Analyze =>
        /\ (NewTrend.trend = "initial") <=> (improvement_history = <<>>)
        /\ (NewTrend.trend = "initial") <=> (saves = 0)
        /\ NewTrend.trend = "initial" =>
             NewTrend = [trend |-> "initial", change |-> 0, status |-> "baseline"] ]_vars

\* An analysis made before the first save and one made after it.
C4_Witness ==
  /\ saves >= 1
  /\ \E k1, k2 \in DOMAIN results_cache :
       /\ results_cache[k1].performance_analysis.trend = "initial"
       /\ results_cache[k2].performance_analysis.trend # "initial"

\* C5: with a non-empty history, change = current overall_fidelity minus the
\* overall_fidelity of the last saved entry; the trend is improving/good iff
\* change > performance_improvement_threshold, otherwise declining/concerning
\* iff change < -max_performance_decline, otherwise stable/neutral; a change
\* equal to either threshold is stable (0.60 then 0.50 with decline 0.10).
C5_TrendClassification ==
  [][ (Analyze /\ improvement_history # <<>>) =>
        LET up == config.training_triggers.performance_improvement_threshold
            down == config.quality_gates.max_performance_decline
            ch == results'[1].overall_fidelity - LastSavedFidelity
        IN
        /\ NewTrend.change = ch
        /\ NewTrend.previous_fidelity = LastSavedFidelity
        /\ NewTrend.current_fidelity = results'[1].overall_fidelity
        /\ (NewTrend.trend = "improving") <=> (ch > up)
        /\ (NewTrend.trend = "declining") <=> (~(ch > up) /\ ch < -down)
        /\ (NewTrend.trend = "stable") <=> (~(ch > up) /\ ~(ch < -down))
        /\ (ch = up \/ ch = -down) => NewTrend.trend = "stable"
        /\ (NewTrend.trend = "improving") <=> (NewTrend.status = "good")
        /\ (NewTrend.trend = "declining") <=> (NewTrend.status = "concerning")
        /\ (NewTrend.trend = "stable") <=> (NewTrend.status = "neutral")
        /\ (LastSavedFidelity = 600 /\ results'[1].overall_fidelity = 500 /\ down = 100)
             => NewTrend.trend = "stable" ]_vars

\* A saved run of 0.60 followed by a run of 0.50 under the default decline of
\* 0.10: the change is exactly -0.10.
C5_Witness ==
  /\ improvement_history # <<>>
  /\ last_call = "analyze"
  /\ config.quality_gates.max_performance_decline = 100
  /\ LastSavedFidelity = 600
  /\ results[1].overall_fidelity = 500
  /\ results[1].performance_analysis.change = -100
  /\ results[1].performance_analysis.trend = "stable"

\* C6: every save appends exactly one entry at the end, holding the saved
\* result's timestamp, overall_fidelity, gate status and training mode; no
\* step removes, reorders or modifies an entry: the length of the log is the
\* number of saves and the log before a step is a prefix of the log after it.
C6_AppendOnly ==
  [][ /\ Save =>
           improvement_history' =
             Append(improvement_history,
                    [timestamp |-> results[1].timestamp,
                     fidelity_metrics |->
                       [overall_fidelity |-> results[1].overall_fidelity],
                     quality_status |-> results[1].quality_gate_status.status,
                     training_mode |-> results[1].training_mode])
      /\ IsPrefix(improvement_history, improvement_history')
      /\ Len(improvement_history') = saves' ]_vars

\* Two saves of different results: two different entries in the log.
C6_Witness ==
  /\ saves = 2
  /\ Len(improvement_history) = 2
  /\ improvement_history[1] # improvement_history[2]
  /\ improvement_history[2].quality_status \in {"passed", "failed"}

ActionFlags ==
  {"continue_training", "deploy_model", "retrain_required",
   "enable_relentless_mode", "schedule_next_cycle", "manual_review_needed"}

\* The flags a result has set.
FlagsSet(r) == { f \in DOMAIN r.next_actions : r.next_actions[f] }

\* C7: next_actions is a first-match table over six flags that start false:
\* deployment_ready sets deploy_model, and enable_relentless_mode and
\* schedule_next_cycle too unless the mode is relentless; else passed gates set
\* continue_training and schedule_next_cycle; else an overall score < 0.5 sets
\* retrain_required and manual_review_needed, and a score >= 0.5 sets
\* continue_training and schedule_next_cycle.  Nothing else is set, apart
\* from the relentless scheduling rule.
C7_ActionTable ==
  \A r \in Produced :
    LET q == r.quality_gate_status
        rel == r.training_mode = "relentless"
        forced == IF rel /\ ~q.deployment_ready THEN {"schedule_next_cycle"} ELSE {}
        table ==
          CASE q.deployment_ready /\ ~rel ->
                 {"deploy_model", "enable_relentless_mode", "schedule_next_cycle"}
            [] q.deployment_ready /\ rel -> {"deploy_model"}
            [] ~q.deployment_ready /\ q.overall_passed ->
                 {"continue_training", "schedule_next_cycle"}
            [] ~q.deployment_ready /\ ~q.overall_passed /\ r.overall_fidelity < 500 ->
                 {"retrain_required", "manual_review_needed"}
            [] ~q.deployment_ready /\ ~q.overall_passed /\ r.overall_fidelity >= 500 ->
                 {"continue_training", "schedule_next_cycle"}
    IN /\ DOMAIN r.next_actions = ActionFlags
       /\ FlagsSet(r) = table \cup forced
       /\ (~q.overall_passed /\ ~q.deployment_ready /\ r.overall_fidelity = 500)
            => (r.next_actions.continue_training /\ ~r.next_actions.retrain_required)

\* Scenario A: all metrics 0.5 in mode standard under the default thresholds.
C7_Witness ==
  \E r \in Produced :
    /\ config.quality_gates = default_config.quality_gates
    /\ r.training_mode = "standard"
    /\ r.overall_fidelity = 500
    /\ r.quality_gate_status.individual_gates.identity_recognition.score = 500
    /\ r.quality_gate_status.individual_gates.persona_consistency.score = 500
    /\ r.quality_gate_status.status = "failed"
    /\ FlagsSet(r) = {"continue_training", "schedule_next_cycle"}

\* C8: every result of mode relentless that is not deployment_ready has
\* schedule_next_cycle set, also on the retrain branch (overall score < 0.5),
\* where it comes with retrain_required and manual_review_needed.
C8_RelentlessAlwaysSchedules ==
  \A r \in Produced :
    (r.training_mode = "relentless" /\ ~r.quality_gate_status.deployment_ready)
      => /\ r.next_actions.schedule_next_cycle
         /\ r.overall_fidelity < 500 =>
              (r.next_actions.retrain_required /\ r.next_actions.manual_review_needed)

\* A relentless run on the retrain branch.
C8_Witness ==
  \E r \in Produced :
    /\ r.training_mode = "relentless"
    /\ ~r.quality_gate_status.deployment_ready
    /\ r.overall_fidelity < 500
    /\ FlagsSet(r) = {"retrain_required", "manual_review_needed", "schedule_next_cycle"}

\* C9: trigger_next_training = relentless or (gates failed and
\* auto_retrain_on_failure); notification_required = (gates failed and
\* auto_retrain_on_failure); training_delay_hours is the relentless interval
\* in mode relentless, else 1 on an auto-retried failure, else 0.  A
\* deployment-ready relentless run (all 0.9, defaults) still triggers, at 4 h.
C9_Triggers ==
  \A r \in Produced :
    LET t == r.automation_triggers
        rel == r.training_mode = "relentless"
        retry == ~r.quality_gate_status.overall_passed
                 /\ config.training_triggers.auto_retrain_on_failure
    IN /\ t.trigger_next_training = (rel \/ retry)
       /\ t.notification_required = retry
       /\ rel => t.training_delay_hours =
                   config.training_triggers.relentless_training_interval_hours
       /\ (~rel /\ retry) => t.training_delay_hours = 1
       /\ (~rel /\ ~retry) => t.training_delay_hours = 0
       /\ (rel /\ config = default_config /\ r.quality_gate_status.deployment_ready)
            => (t.trigger_next_training /\ t.training_delay_hours = 4)

\* A failed relentless run with auto-retry on: the interval replaces the
\* one-hour retry.
C9_Witness ==
  \E r \in Produced :
    /\ r.training_mode = "relentless"
    /\ ~r.quality_gate_status.overall_passed
    /\ config.training_triggers.auto_retrain_on_failure
    /\ r.automation_triggers.notification_required
    /\ r.automation_triggers.training_delay_hours = 4

\* C10 as stated: the adjustments are learning_rate=increase and
\* max_iterations=increase exactly when the overall score is below 0.7, in any
\* mode and whether or not the gate passed, and empty otherwise.
C10_AsStated ==
  \A r \in Produced :
    LET adj == r.automation_triggers.hyperparameter_adjustments IN
    IF r.overall_fidelity < 700
    THEN adj = [learning_rate |-> "increase", max_iterations |-> "increase"]
    ELSE adj = EmptyDict

\* C10: the trigger adjustments are learning_rate=increase and
\* max_iters=increase exactly when the overall score is below 0.7, in any
\* mode and whether or not the gate passed, and empty at 0.7 and above.
C10_HyperparameterBoost ==
  \A r \in Produced :
    LET adj == r.automation_triggers.hyperparameter_adjustments IN
    /\ r.overall_fidelity < 700 =>
         /\ DOMAIN adj = {"learning_rate", "max_iters"}
         /\ adj["learning_rate"] = "increase"
         /\ adj["max_iters"] = "increase"
    /\ r.overall_fidelity >= 700 => DOMAIN adj = {}

\* A ci run at 0.6 that passes its 0.56 threshold and is boosted all the same.
C10_Witness ==
  \E r \in Produced :
    /\ r.training_mode = "ci"
    /\ r.overall_fidelity = 600
    /\ r.quality_gate_status.individual_gates.overall_fidelity.threshold = 560
    /\ r.quality_gate_status.individual_gates.overall_fidelity.passed
    /\ DOMAIN r.automation_triggers.hyperparameter_adjustments =
         {"learning_rate", "max_iters"}

\* C11: every configuration the integrator can hold after loading has the ci
\* overall-fidelity threshold equal to 0.8 * development and the production
\* threshold greater than or equal to the development threshold.
C11_ThresholdOrdering ==
  /\ 10 * MinFidelity(config.quality_gates, "ci") = 8 * Development
  /\ Production >= Development

FailedGates(r) ==
  { n \in DOMAIN r.quality_gate_status.individual_gates :
      ~r.quality_gate_status.individual_gates[n].passed }

\* C12: the recommendations hold, for each failed gate and for no other, one
\* immediate entry and one hyperparameter-adjustment token
\* (identity_recognition -> increase_identity_weight, persona_consistency ->
\* balance_persona_weights, overall_fidelity -> extend_training_duration); both
\* lists are as long as the number of failed gates and empty iff the gates
\* passed.
C12_FailedGateRecommendations ==
  \A r \in Produced :
    LET failed == FailedGates(r)
        imm == r.recommendations.immediate
        adj == r.recommendations.hyperparameter_adjustments
        token == [identity_recognition |-> "increase_identity_weight",
                  persona_consistency |-> "balance_persona_weights",
                  overall_fidelity |-> "extend_training_duration"]
    IN /\ Len(imm) = Cardinality(failed)
       /\ Len(adj) = Cardinality(failed)
       /\ Cardinality(Range(imm)) = Cardinality(failed)
       /\ Range(adj) = { token[n] : n \in failed }
       /\ (imm = <<>>) <=> r.quality_gate_status.overall_passed
       /\ (adj = <<>>) <=> r.quality_gate_status.overall_passed

\* All three gates failed: three entries in each list.
C12_Witness ==
  \E r \in Produced :
    /\ Cardinality(FailedGates(r)) = 3
    /\ Len(r.recommendations.immediate) = 3
    /\ Len(r.recommendations.hyperparameter_adjustments) = 3

\* C13: next_training_cycle depends on overall_fidelity and the mode alone:
\* three band items below 0.6, two from 0.6 up to but not including 0.8, none
\* from 0.8 on; then mode relentless appends the frequency item iff
\* overall_fidelity < 0.85 and always gives one long_term note, and any other
\* mode appends the enable-relentless item iff overall_fidelity > 0.75 and
\* gives no long_term note.
C13_NextCycleBands ==
  \A r \in Produced :
    LET o == r.overall_fidelity
        cyc == r.recommendations.next_training_cycle
        rel == r.training_mode = "relentless"
        nband == IF o < 600 THEN 3 ELSE IF o < 800 THEN 2 ELSE 0
        extra == IF rel THEN o < 850 ELSE o > 750
        freq == "Increase relentless training frequency"
        enable == "Consider enabling relentless training mode"
    IN /\ Len(cyc) = nband + (IF extra THEN 1 ELSE 0)
       /\ (rel /\ extra) => cyc[Len(cyc)] = freq
       /\ (~rel /\ extra) => cyc[Len(cyc)] = enable
       /\ \A i \in 1..nband : cyc[i] \notin {freq, enable}
       /\ (nband = 3) => cyc[1] = "Increase training iterations significantly"
       /\ (nband = 2) => cyc[1] = "Fine-tune with targeted examples"
       /\ Len(r.recommendations.long_term) = (IF rel THEN 1 ELSE 0)
       /\ \A r2 \in Produced :
            (r2.overall_fidelity = o /\ r2.training_mode = r.training_mode)
              => r2.recommendations.next_training_cycle = cyc

\* A run at exactly 0.6 outside relentless mode: the two items of the middle
\* band and nothing else.
C13_Witness ==
  \E r \in Produced :
    /\ r.overall_fidelity = 600
    /\ r.training_mode # "relentless"
    /\ r.recommendations.next_training_cycle =
         <<"Fine-tune with targeted examples",
           "Adjust attention mechanism parameters">>
    /\ r.recommendations.long_term = <<>>

GateNames == {"overall_fidelity", "identity_recognition", "persona_consistency"}

\* The step analyses report e in mode m.
AnalysisStepOf(e, m) == results = <<>> /\ AnalyzeOver({e}, {m})

\* The result has every part, and each gate score is the report's value or
\* 0.0 where the report lacks the key.
CompleteWithDefaults(e, r) ==
  LET fm == IF "fidelity_metrics" \in DOMAIN e THEN e.fidelity_metrics ELSE EmptyDict
      g == r.quality_gate_status.individual_gates
  IN /\ {"timestamp", "training_mode", "overall_fidelity", "quality_gate_status",
         "performance_analysis", "recommendations", "next_actions",
         "automation_triggers"} \subseteq DOMAIN r
     /\ \A n \in GateNames : g[n].score = (IF n \in DOMAIN fm THEN fm[n] ELSE 0)
     /\ r.overall_fidelity = (IF "overall_fidelity" \in DOMAIN fm
                              THEN fm["overall_fidelity"] ELSE 0)
     /\ r.quality_gate_status.status \in {"passed", "failed"}
     /\ r.performance_analysis.trend \in {"initial", "improving", "declining", "stable"}
     /\ DOMAIN r.recommendations =
          {"immediate", "next_training_cycle", "long_term", "hyperparameter_adjustments"}
     /\ DOMAIN r.next_actions = ActionFlags
     /\ \A f \in ActionFlags : r.next_actions[f] \in BOOLEAN
     /\ DOMAIN r.automation_triggers =
          {"trigger_next_training", "training_delay_hours",
           "hyperparameter_adjustments", "dataset_enhancements",
           "notification_required"}

AllThreeMissing(e) ==
  \/ "fidelity_metrics" \notin DOMAIN e
  \/ DOMAIN e.fidelity_metrics \cap GateNames = {}

AllFailAndRetrain(r) ==
  /\ \A n \in GateNames : ~r.quality_gate_status.individual_gates[n].passed
  /\ r.next_actions.retrain_required
  /\ r.next_actions.manual_review_needed

\* C14 as stated: a report missing any subset of the metric keys is analysed
\* with 0.0 for each missing score and yields a complete result; with all
\* three gate scores missing, all three gates fail and the result has
\* retrain_required and manual_review_needed.
C14_AsStated ==
  [][ \A e \in MalformedEvalData, m \in AllModes :
        AnalysisStepOf(e, m) =>
          /\ CompleteWithDefaults(e, results'[1])
          /\ AllThreeMissing(e) => AllFailAndRetrain(results'[1]) ]_vars

\* C14: a report missing any subset of the metric keys is analysed with 0.0
\* for each missing score and yields a complete result; with all three gate
\* scores missing and the three gate thresholds in force above 0.0, all three
\* gates fail and the result has retrain_required and manual_review_needed.
C14_MissingKeysDefault ==
  [][ \A e \in MalformedEvalData, m \in AllModes :
        AnalysisStepOf(e, m) =>
          /\ CompleteWithDefaults(e, results'[1])
          /\ ( /\ AllThreeMissing(e)
               /\ MinFidelity(config.quality_gates, m) > 0
               /\ config.quality_gates.min_identity_recognition > 0
               /\ config.quality_gates.min_persona_consistency > 0 )
               => AllFailAndRetrain(results'[1]) ]_vars

\* A report without the fidelity_metrics group, analysed under the default
\* thresholds: three failed gates at score 0.0 and a retrain.
C14_Witness ==
  /\ config.quality_gates = default_config.quality_gates
  /\ \E r \in Range(results) :
       /\ \A n \in GateNames :
            /\ r.quality_gate_status.individual_gates[n].score = 0
            /\ ~r.quality_gate_status.individual_gates[n].passed
       /\ r.next_actions.retrain_required
       /\ r.next_actions.manual_review_needed

\* Only analyze_training_results reads the clock; only save_analysis_results
\* counts a save.
AnalyzeStep == clock' # clock

SaveStep == saves' = saves + 1

\* C15 as stated: the history log is the only integrator state any operation
\* changes, and only save_analysis_results changes it; an analysis leaves the
\* configuration, the history log and every other instance field unchanged.
C15_AsStated ==
  [][ /\ config' = config
      /\ results_cache' = results_cache
      /\ improvement_history' # improvement_history => SaveStep
      /\ AnalyzeStep => UNCHANGED <<config, results_cache, improvement_history>> ]_vars

\* C15: the integrator state that operations change is the history log and
\* the results cache.  Only save_analysis_results changes the log, and it
\* leaves the cache alone; only analyze_training_results changes the cache,
\* storing its result under the current timestamp and keeping the other
\* entries, and it leaves the configuration and the log unchanged.
C15_FrameOfOperations ==
  [][ /\ config' = config
      /\ improvement_history' # improvement_history => SaveStep
      /\ SaveStep => results_cache' = results_cache
      /\ results_cache' # results_cache => AnalyzeStep
      /\ AnalyzeStep =>
           /\ improvement_history' = improvement_history
           /\ DOMAIN results_cache' = DOMAIN results_cache \cup {clock'}
           /\ results_cache'[clock'] = results'[1]
           /\ \A k \in DOMAIN results_cache \ {clock'} :
                results_cache'[k] = results_cache[k] ]_vars

\* An analysis made after a save, with the earlier analysis still cached.
C15_Witness ==
  /\ last_call = "analyze"
  /\ saves >= 1
  /\ Cardinality(DOMAIN results_cache) >= 2
  /\ results_cache[clock] = results[1]

\* C16: in mode relentless overall_passed and deployment_ready are equal for
\* every metrics record and configuration, so no relentless result has
\* continue_training together with gate status "passed", and deploy_model is
\* set exactly when all gates pass.
C16_RelentlessPassIsReady ==
  \A r \in Produced :
    r.training_mode = "relentless" =>
      /\ r.quality_gate_status.overall_passed = r.quality_gate_status.deployment_ready
      /\ ~(r.next_actions.continue_training /\ r.quality_gate_status.status = "passed")
      /\ r.next_actions.deploy_model = r.quality_gate_status.overall_passed

\* A relentless run that passes: deployed, and not told to continue training;
\* the same scores would pass in mode standard below the production bar.
C16_Witness ==
  \E r \in Produced :
    /\ r.training_mode = "relentless"
    /\ r.quality_gate_status.status = "passed"
    /\ Development < Production
    /\ FlagsSet(r) = {"deploy_model"}

SameInput(r1, r2) ==
  /\ r1.training_mode = r2.training_mode
  /\ \A n \in GateNames :
       r1.quality_gate_status.individual_gates[n].score
         = r2.quality_gate_status.individual_gates[n].score

\* C17: the decisions do not depend on the history: results of the same
\* metrics in the same mode under one configuration, analysed against
\* different history logs, have the same overall_fidelity, gate status,
\* recommendations, next-action flags and automation triggers; only
\* performance_analysis may differ.  A declining trend or a run of saved
\* failures changes neither trigger_next_training nor manual_review_needed.
C17_DecisionsIgnoreHistory ==
  \A r1, r2 \in Produced :
    SameInput(r1, r2) =>
      /\ r1.overall_fidelity = r2.overall_fidelity
      /\ r1.quality_gate_status = r2.quality_gate_status
      /\ r1.recommendations = r2.recommendations
      /\ r1.next_actions = r2.next_actions
      /\ r1.automation_triggers = r2.automation_triggers

\* The same failed run analysed on an empty log and again after a better
\* failed run was saved: the second is "declining", the decisions are equal.
C17_Witness ==
  /\ improvement_history # <<>>
  /\ \A i \in DOMAIN improvement_history : improvement_history[i].quality_status = "failed"
  /\ \E r1, r2 \in Range(results_cache) :
       /\ SameInput(r1, r2)
       /\ r1.performance_analysis.trend = "initial"
       /\ r2.performance_analysis.trend = "declining"
       /\ r1.next_actions.manual_review_needed = r2.next_actions.manual_review_needed
       /\ r1.automation_triggers.trigger_next_training
            = r2.automation_triggers.trigger_next_training

\* C18: under the default configuration a result computed from the synthetic
\* fallback metrics is never deployment_ready and never has deploy_model, in
\* any mode, and never passes the gates in mode relentless, because its
\* overall_fidelity stays below the 0.85 production threshold; it can pass
\* all gates in modes standard and ci.
C18_FallbackNeverDeploys ==
  \A r \in Produced :
    /\ r.overall_fidelity < Production
    /\ ~r.quality_gate_status.deployment_ready
    /\ ~r.next_actions.deploy_model
    /\ r.training_mode = "relentless" => r.quality_gate_status.status = "failed"

\* Fallback metrics that pass all gates in mode standard, and would in ci.
C18_Witness ==
  \E r \in Produced :
    /\ r.training_mode = "standard"
    /\ r.quality_gate_status.overall_passed
    /\ r.overall_fidelity > 750
    /\ ~r.quality_gate_status.deployment_ready
    /\ LET g == r.quality_gate_status.individual_gates
       IN _evaluate_quality_gates(config,
            MetricsOf(g.overall_fidelity.score, g.identity_recognition.score,
                      g.persona_consistency.score), "ci").overall_passed

LastEntry(history) == history[Len(history)]

\* C19: save_analysis_results appends the history entry before it writes the
\* file, so a save whose write raises still leaves the new entry in the log;
\* the next analysis computes its trend against that run, and saving the same
\* result again appends a second entry for it.
C19_AppendBeforeWrite ==
  [][ /\ (SaveStep /\ last_call' = "save_raised") =>
           /\ Len(improvement_history') = Len(improvement_history) + 1
           /\ LastEntry(improvement_history').timestamp = results[1].timestamp
           /\ LastEntry(improvement_history').fidelity_metrics.overall_fidelity
                = results[1].overall_fidelity
           /\ output_file' \in {output_file, <<>>}
      /\ (AnalyzeStep /\ last_call = "save_raised") =>
           /\ NewTrend.trend # "initial"
           /\ NewTrend.previous_fidelity = results[1].overall_fidelity
           /\ NewTrend.change = results'[1].overall_fidelity - results[1].overall_fidelity
      /\ (SaveStep /\ last_call = "save_raised") =>
           /\ Len(improvement_history') >= 2
           /\ LastEntry(improvement_history')
                = improvement_history'[Len(improvement_history') - 1] ]_vars

\* The only save so far raised and left no file; the analysis made after it
\* measured its change against the entry of that save.
C19_Witness ==
  /\ last_call = "analyze"
  /\ saves = 1
  /\ output_file = <<>>
  /\ Len(improvement_history) = 1
  /\ results[1].performance_analysis.trend # "initial"
  /\ results[1].performance_analysis.previous_fidelity
       = improvement_history[1].fidelity_metrics.overall_fidelity

====
